---- MODULE Spec2Model ----
(***************************************************************************)
(* Model of the automation failure simulator's core:                       *)
(*   executor.py      execute_tasks_concurrently  (the dispatcher)         *)
(*   retry_engine.py  execute_with_retry          (the retry engine)       *)
(*   failures.py      simulate_task               (the attempt runner)     *)
(*   models.py        Device, TaskResult, TaskStatus, FailureType          *)
(*                                                                         *)
(* One run of execute_tasks_concurrently is modelled: the main thread      *)
(* submits one future per device, the pool's workers run                   *)
(* execute_with_retry for the queued devices, and the main thread collects *)
(* the futures through as_completed.  Delays are integers (whole seconds). *)
(***************************************************************************)
EXTENDS Integers, Sequences, FiniteSets, TLC

(* ------------------------------ bounds -------------------------------- *)
MaxUnits == 2
MaxWorkers == 2
MaxAttempts == 2
MaxEngineAttempts == 3

(* ------------------------- models.py: enums --------------------------- *)
SUCCESS == "success"
FAILED == "failed"
TIMEOUT == "timeout"
PARTIAL == "partial"
TaskStatus == {SUCCESS, FAILED, TIMEOUT, PARTIAL}

FT_NONE == "none"
FT_TIMEOUT == "timeout"
FT_FLAKY == "flaky"
FT_PARTIAL == "partial"
FailureType == {FT_NONE, FT_TIMEOUT, FT_FLAKY, FT_PARTIAL}

(* error_message values; NoMessage is Python's None *)
NoMessage == "None"
MsgTimedOut == "Operation timed out after Ns"
MsgFlaky == "Connection failed - flaky device"
MsgPartial == "k of 3 operations failed"
MsgUnexpected == "Unexpected error: ..."
MsgExecution == "Execution exception: ..."
MsgStub == "stub failure"

(* TaskResult(device, status, attempts = 0, elapsed_time = 0.0,            *)
(*            error_message = None)                                        *)
TaskResult(device, status, attempts, error_message) ==
    [device |-> device, status |-> status, attempts |-> attempts,
     elapsed_time |-> 0, error_message |-> error_message]

(* The runner a device is processed with: failures.simulate_task, or a     *)
(* replacement bound to the name simulate_task in retry_engine (a test     *)
(* stub): "stub" may return any status or raise, "rigged" raises on every  *)
(* call, "hang" never returns from a call.                                 *)
RUN_SIMULATE == "simulate_task"
RUN_STUB == "stub"
RUN_RIGGED == "rigged"
RUN_HANG == "hang"

(* Device(name, ip, failure_type, failure_rate, timeout_seconds).  The     *)
(* name is the device's position in the input list; a flaky device has a   *)
(* failure_rate strictly between 0 and 1.                                  *)
Device(failure_type, timeout_seconds, runner) ==
    [failure_type |-> failure_type, timeout_seconds |-> timeout_seconds,
     runner |-> runner]

DefaultTimeout == 5
BadTimeout == -3

VARIABLES
    devices,            \* the input list (read-only)
    max_workers,        \* parameters of execute_tasks_concurrently
    max_attempts,
    initial_delay,
    backoff_multiplier,
    mainpc,             \* main thread: "submit", "collect", "done"
    submitted,          \* number of devices submitted so far
    queue,              \* the pool's work queue (FIFO of units)
    worker,             \* worker thread -> unit it runs (0: idle)
    pc,                 \* per unit: position of its processing
    attempt,            \* per unit: loop variable of execute_with_retry
    result,             \* per unit: local `result` of execute_with_retry
    future,             \* per unit: the future's state
    snapshot,           \* as_completed: futures found finished at its start
    finished_futures,   \* as_completed: waiter list, in completion order
    results,            \* the list execute_tasks_concurrently returns
    now,                \* per unit: time.time() as its thread reads it (ticks)
    start_time,         \* per unit: local start_time of execute_with_retry
    hist,               \* history: per unit, what each runner call did
    slept,              \* history: per unit, the delays slept
    spans,              \* history: per unit, <<start, end>> of each attempt
    completed,          \* history: the units in the order their futures finished
    early_count,        \* history: how many had finished when as_completed started
    after_loop          \* history: units that reached the code after the loop

vars == <<devices, max_workers, max_attempts, initial_delay, backoff_multiplier,
          mainpc, submitted, queue, worker, pc, attempt, result, future,
          snapshot, finished_futures, results, now, start_time, hist, slept,
          spans, completed, early_count, after_loop>>

params == <<devices, max_workers, max_attempts, initial_delay, backoff_multiplier>>

Units == 1..Len(devices)
Workers == 1..max_workers

Unbound == [status |-> "unbound"]
Pending == [state |-> "pending"]
RAISE == "raise"

(* ----------------------- failures.py: simulate_task ------------------- *)
Return(status, error_message) ==
    [kind |-> "return", status |-> status, error_message |-> error_message]
Raise == [kind |-> RAISE]

(* time.sleep(secs) raises ValueError for a negative argument *)
SleepRaises(secs) == secs < 0

(* Mutant: simulate_task without its try/except *)
SimulateTaskUnguarded(device) ==
    IF device.failure_type = FT_TIMEOUT
    THEN IF SleepRaises(device.timeout_seconds + 2)
         THEN {Raise}
         ELSE {Return(TIMEOUT, MsgTimedOut)}
    ELSE IF device.failure_type = FT_FLAKY
    THEN {Return(FAILED, MsgFlaky), Return(SUCCESS, NoMessage)}
    ELSE IF device.failure_type = FT_PARTIAL
    THEN {Return(PARTIAL, MsgPartial), Return(SUCCESS, NoMessage)}
    ELSE {Return(SUCCESS, NoMessage)}

(* What one call simulate_task(device) can do.  Every branch is inside the *)
(* try block, so a fault in the body comes back as FAILED "Unexpected      *)
(* error"; among the inputs modelled only the timeout branch can fault     *)
(* (its sleep of timeout_seconds + 2 seconds).                             *)
SimulateTask(device) ==
    IF device.failure_type = FT_TIMEOUT
    THEN IF SleepRaises(device.timeout_seconds + 2)
         THEN {Return(FAILED, MsgUnexpected)}
         ELSE {Return(TIMEOUT, MsgTimedOut)}
    ELSE IF device.failure_type = FT_FLAKY
    THEN {Return(FAILED, MsgFlaky), Return(SUCCESS, NoMessage)}
    ELSE IF device.failure_type = FT_PARTIAL
    THEN {Return(PARTIAL, MsgPartial), Return(SUCCESS, NoMessage)}
    ELSE {Return(SUCCESS, NoMessage)}

(* The call at retry_engine.py line 41, with the runner bound for the device *)
RunnerOutcomes(device) ==
    IF device.runner = RUN_SIMULATE THEN SimulateTask(device)
    ELSE IF device.runner = RUN_RIGGED THEN {Raise}
    ELSE IF device.runner = RUN_HANG THEN {}
    ELSE {Return(SUCCESS, NoMessage)}
         \cup {Return(s, MsgStub) : s \in TaskStatus \ {SUCCESS}}
         \cup {Raise}

(* -------------------- retry_engine.py: execute_with_retry ------------- *)
RECURSIVE Pow(_, _)
Pow(b, e) == IF e <= 0 THEN 1 ELSE b * Pow(b, e - 1)

(* Mutant: the exponent is the attempt number, not the attempt number - 1 *)
BackoffDelayOffByOne(d, b, n) == d * Pow(b, n)

(* line 81: delay = initial_delay * (backoff_multiplier ** (attempt - 1)) *)
BackoffDelay(d, b, n) == d * Pow(b, n - 1)

(* Mutant: the success test is made only on the last allowed attempt *)
DecideSuccessLate(status, n, m) ==
    IF n < m THEN "retry" ELSE "return"

(* Mutant: a partial failure is accepted as final instead of retried *)
DecideAcceptsPartial(status, n, m) ==
    IF status = SUCCESS THEN "return"
    ELSE IF status = TIMEOUT /\ n < m THEN "retry"
    ELSE IF status = FAILED /\ n < m THEN "retry"
    ELSE "return"

(* Mutant: a non-success outcome of the last attempt is retried as well *)
DecideFallsThrough(status, n, m) ==
    IF status = SUCCESS THEN "return" ELSE "retry"

(* lines 44-77: what the loop body does with the status of attempt n *)
Decide(status, n, m) ==
    IF status = SUCCESS THEN "return"
    ELSE IF status = PARTIAL /\ n < m THEN "retry"
    ELSE IF status = TIMEOUT /\ n < m THEN "retry"
    ELSE IF status = FAILED /\ n < m THEN "retry"
    ELSE "return"

(* Mutant: the next attempt follows without a sleep *)
SleepsNever(n, m) == FALSE

(* line 80: the guard of the backoff sleep *)
SleepsAfter(n, m) == n < m

(* How long one call of the runner takes, in ticks: the timeout branch     *)
(* sleeps timeout_seconds + 2 (nothing when that sleep raises), a flaky    *)
(* failure returns without sleeping, and the sub-second sleeps of the      *)
(* other branches, like a call of a replaced runner, count as one tick.    *)
AttemptDuration(device, o) ==
    IF device.runner # RUN_SIMULATE THEN 1
    ELSE IF device.failure_type = FT_TIMEOUT
    THEN IF SleepRaises(device.timeout_seconds + 2) THEN 0
         ELSE device.timeout_seconds + 2
    ELSE IF device.failure_type = FT_FLAKY /\ o.status = FAILED THEN 0
    ELSE 1

(* line 86: time.sleep(delay) returns delay ticks later *)
SleepReturns(t, delay) == t + delay

(* lines 46, 72, 90: time.time() - start_time when unit u returns *)
Elapsed(u) == now'[u] - start_time[u]

(* lines 45-46 / 71-72 / 89-90: set elapsed_time on the result *)
Timed(r, t) == [r EXCEPT !.elapsed_time = t]

(* Mutant: the work item calls execute_with_retry again after a fault *)
FinishRetriesFault(u, f) ==
    IF f.state = "exception"
    THEN /\ pc' = [pc EXCEPT ![u] = "loop"]
         /\ UNCHANGED <<future, worker, finished_futures, completed>>
    ELSE /\ pc' = [pc EXCEPT ![u] = "finished"]
         /\ future' = [future EXCEPT ![u] = f]
         /\ worker' = [w \in Workers |-> IF worker[w] = u THEN 0 ELSE worker[w]]
         /\ finished_futures' = IF mainpc = "collect"
                                THEN Append(finished_futures, u)
                                ELSE finished_futures
         /\ completed' = Append(completed, u)

(* Mutant: a worker thread whose work item raised is lost to the pool *)
FinishLosesWorker(u, f) ==
    /\ pc' = [pc EXCEPT ![u] = "finished"]
    /\ future' = [future EXCEPT ![u] = f]
    /\ worker' = [w \in Workers |->
                    IF worker[w] = u /\ f.state = "result" THEN 0 ELSE worker[w]]
    /\ finished_futures' = IF mainpc = "collect"
                           THEN Append(finished_futures, u)
                           ELSE finished_futures
    /\ completed' = Append(completed, u)

(* The future of unit u finishes: its worker becomes free and, once        *)
(* as_completed has installed its waiter, the unit joins finished_futures. *)
FutureResult(r) == [state |-> "result", value |-> r]
FutureException(e) == [state |-> "exception", exc |-> e]

Finish(u, f) ==
    /\ pc' = [pc EXCEPT ![u] = "finished"]
    /\ future' = [future EXCEPT ![u] = f]
    /\ worker' = [w \in Workers |-> IF worker[w] = u THEN 0 ELSE worker[w]]
    /\ finished_futures' = IF mainpc = "collect"
                           THEN Append(finished_futures, u)
                           ELSE finished_futures
    /\ completed' = Append(completed, u)

(* Mutant: the attempt count is taken from a zero-based loop variable *)
AnnotatedZeroBased(r, n) == [r EXCEPT !.attempts = n - 1]

(* lines 71-77 / 45-51: annotate the last result and return it *)
Annotated(r, n) == [r EXCEPT !.attempts = n]

(* lines 88-91: the code after the loop *)
AfterLoop(u) ==
    IF result[u] = Unbound
    THEN Finish(u, FutureException("UnboundLocalError"))
    ELSE Finish(u, FutureResult(Timed(Annotated(result[u], max_attempts), Elapsed(u))))

(* Mutant: the loop variable is one module-level counter shared by all units *)
LoopHeadSharedCounter(u, n) ==
    IF n <= max_attempts
    THEN /\ pc' = [pc EXCEPT ![u] = "attempt"]
         /\ attempt' = [v \in Units |-> n]
         /\ UNCHANGED <<future, worker, finished_futures, completed, after_loop>>
    ELSE /\ AfterLoop(u)
         /\ after_loop' = after_loop \cup {u}
         /\ UNCHANGED attempt

(* line 36: the loop head, entered for iteration n *)
LoopHead(u, n) ==
    IF n <= max_attempts
    THEN /\ pc' = [pc EXCEPT ![u] = "attempt"]
         /\ attempt' = [attempt EXCEPT ![u] = n]
         /\ UNCHANGED <<future, worker, finished_futures, completed, after_loop>>
    ELSE /\ AfterLoop(u)
         /\ after_loop' = after_loop \cup {u}
         /\ UNCHANGED attempt

(* executor.py lines 44-53 (one element of the comprehension): submit *)
Submit ==
    /\ mainpc = "submit"
    /\ submitted < Len(devices)
    /\ submitted' = submitted + 1
    /\ queue' = Append(queue, submitted + 1)
    /\ pc' = [pc EXCEPT ![submitted + 1] = "queued"]
    /\ UNCHANGED <<params, mainpc, worker, attempt, result, future, snapshot,
                   finished_futures, results, now, start_time, hist, slept,
                   spans, completed, early_count, after_loop>>

(* Mutant: a work item is handed to a thread that is still running one *)
IdleOrBusy(w) == \A v \in Workers : v < w => worker[v] # 0

(* Mutant: a thread whose unit sleeps in backoff counts as free *)
IdleWhileSleeping(w) ==
    /\ IF worker[w] = 0 THEN TRUE ELSE pc[worker[w]] = "backoff"
    /\ \A v \in Workers :
         v < w => IF worker[v] = 0 THEN FALSE ELSE pc[worker[v]] # "backoff"

(* A worker thread of the pool is free to take a work item.  The pool's    *)
(* threads are interchangeable; the one that takes the next item is named  *)
(* as the lowest-numbered idle one.                                        *)
Idle(w) == worker[w] = 0 /\ \A v \in Workers : v < w => worker[v] # 0

(* An idle worker takes the oldest queued unit and enters execute_with_retry *)
Take(w) ==
    /\ Idle(w)
    /\ queue # <<>>
    /\ worker' = [worker EXCEPT ![w] = Head(queue)]
    /\ queue' = Tail(queue)
    /\ pc' = [pc EXCEPT ![Head(queue)] = "loop"]
    /\ UNCHANGED <<params, mainpc, submitted, attempt, result, future, snapshot,
                   finished_futures, results, now, start_time, hist, slept,
                   spans, completed, early_count, after_loop>>

(* retry_engine.py lines 34-36: start_time is read, then the first         *)
(* iteration of the loop begins (or none)                                  *)
Enter(u) ==
    /\ pc[u] = "loop"
    /\ start_time' = [start_time EXCEPT ![u] = now[u]]
    /\ LoopHead(u, 1)
    /\ UNCHANGED <<params, mainpc, submitted, queue, result, snapshot, results,
                   now, hist, slept, spans, early_count>>

(* lines 41-86: one attempt and what the loop body does with its outcome *)
Attempt(u) ==
    /\ pc[u] = "attempt"
    /\ \E o \in RunnerOutcomes(devices[u]) :
         /\ now' = [now EXCEPT ![u] = @ + AttemptDuration(devices[u], o)]
         /\ spans' = [spans EXCEPT ![u] = Append(@, <<now[u], now'[u]>>)]
         /\ IF o.kind = RAISE
            THEN /\ hist' = [hist EXCEPT ![u] = Append(@, RAISE)]
                 /\ Finish(u, FutureException("RunnerFault"))
                 /\ UNCHANGED <<result, slept>>
            ELSE /\ hist' = [hist EXCEPT ![u] = Append(@, o.status)]
                 /\ result' = [result EXCEPT ![u] = TaskResult(u, o.status, 1, o.error_message)]
                 /\ IF Decide(o.status, attempt[u], max_attempts) = "return"
                    THEN /\ Finish(u, FutureResult(Timed(Annotated(result'[u], attempt[u]), Elapsed(u))))
                         /\ UNCHANGED slept
                    ELSE IF SleepsAfter(attempt[u], max_attempts)
                    THEN LET delay == BackoffDelay(initial_delay, backoff_multiplier, attempt[u])
                         IN  IF SleepRaises(delay)
                             THEN /\ Finish(u, FutureException("ValueError"))
                                  /\ UNCHANGED slept
                             ELSE /\ pc' = [pc EXCEPT ![u] = "backoff"]
                                  /\ slept' = [slept EXCEPT ![u] = Append(@, delay)]
                                  /\ UNCHANGED <<future, worker, finished_futures, completed>>
                    ELSE /\ pc' = [pc EXCEPT ![u] = "nosleep"]
                         /\ UNCHANGED <<slept, future, worker, finished_futures, completed>>
    /\ UNCHANGED <<params, mainpc, submitted, queue, attempt, snapshot, results,
                   start_time, early_count, after_loop>>

(* line 86 returns (or was skipped): the loop goes to its next iteration *)
Wake(u) ==
    /\ pc[u] \in {"backoff", "nosleep"}
    /\ now' = [now EXCEPT ![u] =
                 IF pc[u] = "backoff"
                 THEN SleepReturns(@, BackoffDelay(initial_delay, backoff_multiplier, attempt[u]))
                 ELSE @]
    /\ LoopHead(u, attempt[u] + 1)
    /\ UNCHANGED <<params, mainpc, submitted, queue, result, snapshot, results,
                   start_time, hist, slept, spans, early_count>>

(* executor.py line 56: as_completed starts; the futures already finished  *)
(* are yielded first, in the iteration order of a set                      *)
BeginCollect ==
    /\ mainpc = "submit"
    /\ submitted = Len(devices)
    /\ mainpc' = "collect"
    /\ snapshot' = {u \in Units : pc[u] = "finished"}
    /\ early_count' = Len(completed)
    /\ UNCHANGED <<params, submitted, queue, worker, pc, attempt, result, future,
                   finished_futures, results, now, start_time, hist, slept,
                   spans, completed, after_loop>>

(* The faults modelled are instances of Exception subclasses *)
ExceptionClasses == {"RunnerFault", "ValueError", "UnboundLocalError"}

(* Mutant: the except clause names ValueError only *)
CaughtValueErrorOnly(e) == e = "ValueError"

(* line 64: except Exception *)
Caught(e) == e \in ExceptionClasses

(* Mutant: the synthesised result carries no error message *)
SyntheticNoMessage(u) == TaskResult(u, FAILED, 0, NoMessage)

(* lines 69-75: the result recorded for a unit whose future raised *)
SyntheticResult(u) == TaskResult(u, FAILED, 0, MsgExecution)

(* lines 57-75: what is appended for the future of unit u *)
Collected(u) ==
    IF future[u].state = "result" THEN future[u].value ELSE SyntheticResult(u)

(* Mutant: the except clause logs the fault and appends nothing *)
RecordDropsFault(u) ==
    IF future[u].state = "result" THEN Append(results, future[u].value) ELSE results

(* Mutant: the list is rebound to a one-element list instead of appended to *)
RecordRebinds(u) == <<Collected(u)>>

(* lines 58 and 69: the list after the future of unit u was handled *)
Record(u) == Append(results, Collected(u))

(* Mutant: the waiter's list is consumed from its newest end *)
YieldsNewestFirst(u) ==
    IF snapshot # {} THEN u \in snapshot
    ELSE finished_futures # <<>> /\ u = finished_futures[Len(finished_futures)]

(* line 56: the future as_completed yields next *)
YieldsNext(u) ==
    IF snapshot # {} THEN u \in snapshot
    ELSE finished_futures # <<>> /\ u = Head(finished_futures)

(* q without the unit u *)
Without(q, u) == SelectSeq(q, LAMBDA x : x # u)

(* lines 56-75: one iteration of the collection loop; a fault the except   *)
(* clause does not catch leaves execute_tasks_concurrently                 *)
Collect(u) ==
    /\ mainpc = "collect"
    /\ pc[u] = "finished"
    /\ YieldsNext(u)
    /\ IF snapshot # {}
       THEN /\ snapshot' = snapshot \ {u}
            /\ UNCHANGED finished_futures
       ELSE /\ finished_futures' = Without(finished_futures, u)
            /\ UNCHANGED snapshot
    /\ IF future[u].state = "exception" /\ ~Caught(future[u].exc)
       THEN /\ mainpc' = "raised"
            /\ UNCHANGED results
       ELSE /\ results' = Record(u)
            /\ UNCHANGED mainpc
    /\ pc' = [pc EXCEPT ![u] = "collected"]
    /\ UNCHANGED <<params, submitted, queue, worker, attempt, result,
                   future, now, start_time, hist, slept, spans, completed,
                   early_count, after_loop>>

(* line 77: every future was yielded; the pool shuts down; results returned *)
ReturnResults ==
    /\ mainpc = "collect"
    /\ \A u \in Units : pc[u] = "collected"
    /\ mainpc' = "done"
    /\ UNCHANGED <<params, submitted, queue, worker, pc, attempt, result, future,
                   snapshot, finished_futures, results, now, start_time, hist,
                   slept, spans, completed, early_count, after_loop>>

(* ------------------------------ inputs -------------------------------- *)
(* Devices as generate_devices builds them (--timeout 5 or --timeout -3),  *)
(* and devices processed with a replaced runner.                           *)
SimulatedKinds ==
    {Device(ft, DefaultTimeout, RUN_SIMULATE) : ft \in FailureType}
    \cup {Device(FT_TIMEOUT, BadTimeout, RUN_SIMULATE)}
RiggedKind == Device(FT_NONE, DefaultTimeout, RUN_RIGGED)
StubKind == Device(FT_NONE, DefaultTimeout, RUN_STUB)
DeviceKinds == SimulatedKinds \cup {RiggedKind, StubKind}

(* The kinds used in runs of several devices *)
DispatchKinds ==
    {Device(ft, DefaultTimeout, RUN_SIMULATE) : ft \in FailureType}
    \cup {RiggedKind}

RECURSIVE SeqsOf(_, _)
SeqsOf(S, n) ==
    IF n = 0 THEN {<<>>}
    ELSE {<<>>} \cup {Append(q, x) : q \in SeqsOf(S, n - 1), x \in S}

InitialDelays == {-1, 1}
Multipliers == {2}

InitRun ==
    /\ mainpc = "submit"
    /\ submitted = 0
    /\ queue = <<>>
    /\ worker = [w \in Workers |-> 0]
    /\ pc = [u \in Units |-> "unsubmitted"]
    /\ attempt = [u \in Units |-> 0]
    /\ result = [u \in Units |-> Unbound]
    /\ future = [u \in Units |-> Pending]
    /\ snapshot = {}
    /\ finished_futures = <<>>
    /\ results = <<>>
    /\ now = [u \in Units |-> 0]
    /\ start_time = [u \in Units |-> 0]
    /\ hist = [u \in Units |-> <<>>]
    /\ slept = [u \in Units |-> <<>>]
    /\ spans = [u \in Units |-> <<>>]
    /\ completed = <<>>
    /\ early_count = 0
    /\ after_loop = {}

Init ==
    /\ devices \in SeqsOf(DispatchKinds, MaxUnits)
    /\ max_workers \in 1..MaxWorkers
    /\ max_attempts \in 0..MaxAttempts
    /\ initial_delay \in InitialDelays
    /\ backoff_multiplier \in Multipliers
    /\ InitRun

Next ==
    \/ Submit
    \/ \E w \in Workers : Take(w)
    \/ \E u \in Units : Enter(u)
    \/ \E u \in Units : Attempt(u)
    \/ \E u \in Units : Wake(u)
    \/ BeginCollect
    \/ \E u \in Units : Collect(u)
    \/ ReturnResults

Spec == Init /\ [][Next]_vars

(* The runs checked for termination: devices that succeed, that fail or    *)
(* succeed at each attempt, and that fault at each attempt.                *)
LiveKinds ==
    {Device(FT_NONE, DefaultTimeout, RUN_SIMULATE),
     Device(FT_FLAKY, DefaultTimeout, RUN_SIMULATE),
     RiggedKind}

FairInit ==
    /\ devices \in SeqsOf(LiveKinds, MaxUnits)
    /\ max_workers \in 1..MaxWorkers
    /\ max_attempts \in 0..MaxAttempts
    /\ initial_delay \in InitialDelays
    /\ backoff_multiplier \in Multipliers
    /\ InitRun

(* Every thread that can take a step eventually takes one: attempts return *)
(* or raise, sleeps end, the scheduler is fair.                            *)
FairSpec == FairInit /\ [][Next]_vars /\ WF_vars(Next)

(* Runs over a single device of any kind, through the same dispatcher,     *)
(* with wider retry parameters                                             *)
EngineDelays == {-1, 0, 1, 2}
EngineMultipliers == {-1, 0, 1, 2, 3}

InitOne ==
    /\ devices \in {<<k>> : k \in DeviceKinds}
    /\ max_workers \in 1..MaxWorkers
    /\ max_attempts \in 0..MaxEngineAttempts
    /\ initial_delay \in EngineDelays
    /\ backoff_multiplier \in EngineMultipliers
    /\ InitRun

SpecOne == InitOne /\ [][Next]_vars

(* Runs in which the runner of some devices never returns from a call,    *)
(* beside devices that fail or succeed at each attempt                     *)
HangKind == Device(FT_NONE, DefaultTimeout, RUN_HANG)
HangKinds == {Device(FT_FLAKY, DefaultTimeout, RUN_SIMULATE), HangKind}

InitHang ==
    /\ devices \in SeqsOf(HangKinds, MaxUnits)
    /\ max_workers \in 1..MaxWorkers
    /\ max_attempts \in 1..MaxAttempts
    /\ initial_delay \in InitialDelays
    /\ backoff_multiplier \in Multipliers
    /\ InitRun

SpecHang == InitHang /\ [][Next]_vars

(* ====================== properties of the program ===================== *)
Returned(u) == future[u].state = "result"
Raised(u) == future[u].state = "exception"
InProgress == {u \in Units : pc[u] \in {"loop", "attempt", "backoff", "nosleep"}}
ResultsOf(u) == {i \in 1..Len(results) : results[i].device = u}
NonSuccess == {FAILED, TIMEOUT, PARTIAL}
Exhausted(r) == r.status \in NonSuccess /\ r.attempts = max_attempts
Synthetic(r) == r.error_message = MsgExecution

(* C1: execute_tasks_concurrently returns exactly one result per input     *)
(* device: N results for N devices, no device twice, none missing, and at  *)
(* no time a result for something that is not an input device, whatever    *)
(* the units end in.                                                       *)
C1_OneResultPerUnit ==
    /\ \A i \in 1..Len(results) : results[i].device \in Units
    /\ \A u \in Units : Cardinality(ResultsOf(u)) <= 1
    /\ mainpc = "done" =>
         /\ Len(results) = Len(devices)
         /\ \A u \in Units : Cardinality(ResultsOf(u)) = 1

(* C1 witness: a finished run of MaxUnits devices, one ended in a fault    *)
(* and one exhausted its attempts after a retry                            *)
C1_Witness ==
    /\ mainpc = "done"
    /\ Len(devices) = MaxUnits
    /\ max_attempts >= 2
    /\ \E i, j \in 1..Len(results) :
         /\ Synthetic(results[i])
         /\ Exhausted(results[j])

(* C2: at most max_workers units are ever inside execute_with_retry, each  *)
(* held by exactly one worker thread; every submitted unit that is neither *)
(* in progress nor finished waits in the work queue; and a unit leaves the *)
(* queue only as its head, into a free worker slot.                        *)
C2_StateBound ==
    /\ Cardinality(InProgress) <= max_workers
    /\ \A u \in InProgress : Cardinality({w \in Workers : worker[w] = u}) = 1
    /\ \A w \in Workers : worker[w] # 0 => worker[w] \in InProgress
    /\ \A u \in Units :
         pc[u] = "queued" <=> (\E i \in 1..Len(queue) : queue[i] = u)
    /\ \A i, j \in 1..Len(queue) : queue[i] = queue[j] => i = j

C2_Admission ==
    \A u \in Units :
        (pc[u] = "queued" /\ pc'[u] # "queued") =>
            /\ Cardinality(InProgress) < max_workers
            /\ u = Head(queue)
            /\ pc'[u] = "loop"

C2_BoundedConcurrency == [](C2_StateBound) /\ [][C2_Admission]_vars

(* C2 witness: all workers busy while a unit waits in the queue *)
C2_Witness ==
    /\ Cardinality(InProgress) = max_workers
    /\ queue # <<>>
    /\ \E u \in Units : pc[u] = "backoff"

(* C3: a unit whose future raised is recorded, when collected, by exactly  *)
(* one result: FAILED, tagged with its device, with the "Execution         *)
(* exception" message; the fault never leaves execute_tasks_concurrently,  *)
(* and a finished unit not yet collected stays in line for collection.     *)
C3_FaultIsolated ==
    /\ mainpc # "raised"
    /\ \A u \in Units :
         (Raised(u) /\ pc[u] = "collected") =>
            /\ Cardinality(ResultsOf(u)) = 1
            /\ \A i \in ResultsOf(u) :
                 /\ results[i].status = FAILED
                 /\ results[i].error_message = MsgExecution
    /\ \A u \in Units :
         (mainpc = "collect" /\ pc[u] = "finished") =>
            (u \in snapshot \/ \E i \in 1..Len(finished_futures) : finished_futures[i] = u)
    /\ \A i \in 1..Len(results) :
         Synthetic(results[i]) => Raised(results[i].device)

(* C3 witness: a runner fault was collected and a unit collected after it  *)
(* returned normally                                                       *)
C3_Witness ==
    /\ mainpc = "done"
    /\ \E i, j \in 1..Len(results) :
         /\ i < j
         /\ Raised(results[i].device)
         /\ future[results[i].device].exc = "RunnerFault"
         /\ Returned(results[j].device)

(* The outcome of execute_with_retry as a function of the unit's own       *)
(* attempt outcomes h and the retry parameters alone: <<status, attempts>> *)
(* as the dispatcher records it (a fault is recorded as FAILED with the    *)
(* default attempt count 0).                                               *)
RECURSIVE GeometricDelay(_, _, _)
GeometricDelay(d, b, n) == IF n <= 1 THEN d ELSE b * GeometricDelay(d, b, n - 1)

RECURSIVE OwnOutcome(_, _, _, _, _)
OwnOutcome(h, n, m, d, b) ==
    IF n > m \/ n > Len(h) THEN <<FAILED, 0>>
    ELSE IF h[n] = RAISE THEN <<FAILED, 0>>
    ELSE IF h[n] = SUCCESS THEN <<SUCCESS, n>>
    ELSE IF n = m THEN <<h[n], n>>
    ELSE IF GeometricDelay(d, b, n) < 0 THEN <<FAILED, 0>>
    ELSE OwnOutcome(h, n + 1, m, d, b)

(* C4: the status and attempt count recorded for a unit whose runner is    *)
(* not rigged depend only on that unit's own attempt outcomes and the      *)
(* retry parameters, in every run: with or without a rigged unit beside    *)
(* it, for every worker bound and interleaving; and a finished run has a   *)
(* result for every such unit.                                             *)
C4_NonInterference ==
    /\ \A i \in 1..Len(results) :
         LET u == results[i].device
         IN  devices[u].runner # RUN_RIGGED =>
                <<results[i].status, results[i].attempts>> =
                    OwnOutcome(hist[u], 1, max_attempts, initial_delay, backoff_multiplier)
    /\ mainpc = "done" =>
         \A u \in Units : devices[u].runner # RUN_RIGGED => ResultsOf(u) # {}

(* C4 witness: one worker, a rigged unit first in the list, and a unit     *)
(* behind it that succeeded on its second attempt                          *)
C4_Witness ==
    /\ mainpc = "done"
    /\ max_workers = 1
    /\ Len(devices) = 2
    /\ devices[1].runner = RUN_RIGGED
    /\ hist[2] = <<FAILED, SUCCESS>>
    /\ \E i \in 1..Len(results) :
         results[i].device = 2 /\ results[i].status = SUCCESS /\ results[i].attempts = 2

AllNonSuccess(h) == \A i \in 1..Len(h) : h[i] \in NonSuccess
RECURSIVE SumSeq(_)
SumSeq(q) == IF q = <<>> THEN 0 ELSE Head(q) + SumSeq(Tail(q))

(* C5: a SUCCESS returned by attempt n ends execute_with_retry at once:    *)
(* the unit's future holds SUCCESS with attempts = n, SUCCESS is the last  *)
(* runner call ever made for the unit, and the unit slept n - 1 times      *)
(* (once after each earlier attempt, never after the success).             *)
C5_SuccessReturnsAtOnce ==
    \A u \in Units : \A n \in 1..Len(hist[u]) :
        hist[u][n] = SUCCESS =>
            /\ n = Len(hist[u])
            /\ n <= max_attempts
            /\ pc[u] \in {"finished", "collected"}
            /\ Returned(u)
            /\ future[u].value.status = SUCCESS
            /\ future[u].value.attempts = n
            /\ Len(slept[u]) = n - 1

(* C5 witness: a unit that failed at least once and then succeeded, its    *)
(* future holding the number of the successful attempt                     *)
C5_Witness ==
    \E u \in Units :
        /\ Len(hist[u]) >= 2
        /\ hist[u][Len(hist[u])] = SUCCESS
        /\ Returned(u)
        /\ future[u].value.attempts = Len(hist[u])

(* C6: once max_attempts >= 1 attempts were made and all returned a        *)
(* non-success status, execute_with_retry has returned with attempts =     *)
(* max_attempts and the status of the last attempt; and it never returns   *)
(* a non-success outcome before that.                                      *)
C6_ExhaustionKeepsLastStatus ==
    \A u \in Units :
        /\ (max_attempts >= 1 /\ Len(hist[u]) = max_attempts /\ AllNonSuccess(hist[u])) =>
              /\ Returned(u)
              /\ future[u].value.attempts = max_attempts
              /\ future[u].value.status = hist[u][max_attempts]
        /\ (Returned(u) /\ AllNonSuccess(hist[u])) =>
              /\ Len(hist[u]) = max_attempts
              /\ future[u].value.attempts = max_attempts

(* C6 witness: three attempts with three statuses, PARTIAL last, returned  *)
(* as PARTIAL                                                              *)
C6_Witness ==
    \E u \in Units :
        /\ max_attempts = 3
        /\ hist[u] = <<FAILED, TIMEOUT, PARTIAL>>
        /\ Returned(u)
        /\ future[u].value.status = PARTIAL

(* C7 (as claimed): every recorded outcome has 1 <= attempts <=            *)
(* max_attempts, the synthesised ones included (stated for max_attempts    *)
(* >= 1, where that range is not empty).                                   *)
C7_AttemptsInRange ==
    max_attempts >= 1 =>
        \A i \in 1..Len(results) :
            1 <= results[i].attempts /\ results[i].attempts <= max_attempts

(* C7, the part the code keeps: an outcome execute_with_retry returned has *)
(* 1 <= attempts <= max_attempts; a synthesised one has attempts = 0.      *)
C7_ReturnedAttemptsInRange ==
    \A i \in 1..Len(results) :
        IF Synthetic(results[i])
        THEN results[i].attempts = 0
        ELSE 1 <= results[i].attempts /\ results[i].attempts <= max_attempts

(* C8: the k-th delay a unit sleeps is initial_delay * multiplier^(k-1);   *)
(* a unit about to make or making attempt n has slept n - 1 times, a unit  *)
(* whose last attempt n ended its processing has slept n - 1 times, so     *)
(* nothing is slept after a SUCCESS or after attempt max_attempts; a unit  *)
(* failing all max_attempts attempts slept max_attempts - 1 times.         *)
C8_BackoffDelays ==
    \A u \in Units :
        /\ \A k \in 1..Len(slept[u]) :
              slept[u][k] = GeometricDelay(initial_delay, backoff_multiplier, k)
        /\ pc[u] = "attempt" => Len(slept[u]) = attempt[u] - 1 /\ Len(hist[u]) = attempt[u] - 1
        /\ pc[u] = "backoff" => Len(slept[u]) = attempt[u] /\ Len(hist[u]) = attempt[u]
        /\ Returned(u) => Len(slept[u]) = Len(hist[u]) - 1
        /\ Len(slept[u]) <= (IF max_attempts >= 1 THEN max_attempts - 1 ELSE 0)
        /\ (Returned(u) /\ AllNonSuccess(hist[u])) =>
              /\ Len(slept[u]) = max_attempts - 1
              /\ SumSeq(slept[u]) =
                    SumSeq([k \in 1..(max_attempts - 1) |->
                               GeometricDelay(initial_delay, backoff_multiplier, k)])

(* C8 witness: initial_delay 1, multiplier 2, three failed attempts:       *)
(* delays 1 then 2, 3 in total                                             *)
C8_Witness ==
    \E u \in Units :
        /\ initial_delay = 1 /\ backoff_multiplier = 2 /\ max_attempts = 3
        /\ Returned(u)
        /\ AllNonSuccess(hist[u])
        /\ slept[u] = <<1, 2>>
        /\ SumSeq(slept[u]) = 3

(* C9: under fair scheduling every run ends, with one result per device *)
C9_RunTerminates ==
    <>(mainpc = "done" /\ Len(results) = Len(devices))

(* C9 witness: a finished run in which a unit faulted *)
C9_Witness ==
    /\ mainpc = "done"
    /\ Len(results) = Len(devices)
    /\ Len(devices) = MaxUnits
    /\ \E u \in Units : Raised(u)

(* C10 (as claimed): a runner call that raises is turned into a FAILED     *)
(* outcome by execute_with_retry, whose future therefore never holds an    *)
(* exception because of it.                                                *)
C10_EngineClassifiesRunnerFault ==
    \A u \in Units :
        (\E n \in 1..Len(hist[u]) : hist[u][n] = RAISE) =>
            (pc[u] \in {"finished", "collected"} => Returned(u) /\ future[u].value.status = FAILED)

(* C10 (amended): a fault inside simulate_task's body is classified by     *)
(* simulate_task itself, as FAILED with the "Unexpected error" message, so *)
(* no call of simulate_task raises; a fault that does escape the runner    *)
(* ends execute_with_retry at that attempt and reaches its caller through  *)
(* the future, and the dispatcher records it as FAILED with the "Execution *)
(* exception" message.                                                     *)
C10_FaultClassifiedOutsideEngine ==
    \A u \in Units :
        /\ devices[u].runner = RUN_SIMULATE =>
              /\ \A n \in 1..Len(hist[u]) : hist[u][n] # RAISE
              /\ (devices[u].failure_type = FT_TIMEOUT /\ devices[u].timeout_seconds + 2 < 0) =>
                    /\ \A n \in 1..Len(hist[u]) : hist[u][n] = FAILED
                    /\ result[u] # Unbound => result[u].error_message = MsgUnexpected
        /\ \A n \in 1..Len(hist[u]) :
              hist[u][n] = RAISE =>
                 /\ n = Len(hist[u])
                 /\ Raised(u)
                 /\ future[u].exc = "RunnerFault"
                 /\ \A i \in ResultsOf(u) :
                       results[i].status = FAILED /\ results[i].error_message = MsgExecution

(* C10 witness: a runner fault on a second attempt, collected *)
C10_Witness ==
    \E u \in Units :
        /\ hist[u] = <<FAILED, RAISE>>
        /\ Raised(u)
        /\ ResultsOf(u) # {}

(* The sequences of m outcomes a runner can be made to produce of which    *)
(* the calls made so far, h, are the beginning.                            *)
Feeds(h, m) ==
    {s \in [1..m -> TaskStatus] : \A i \in 1..Len(h) : i <= m => s[i] = h[i]}

(* The index of the first SUCCESS among the first m outcomes of s, or m *)
FirstSuccessOrLast(s, m) ==
    IF \E i \in 1..m : s[i] = SUCCESS
    THEN CHOOSE i \in 1..m : s[i] = SUCCESS /\ \A j \in 1..(i - 1) : s[j] # SUCCESS
    ELSE m

(* C11: for max_attempts = M >= 1, what execute_with_retry returns is      *)
(* fixed by the sequence of outcomes fed to it and M: for every sequence   *)
(* of M outcomes the calls made are the beginning of, the attempt count is *)
(* the index k of the first SUCCESS in it, or M if there is none, the      *)
(* status is that of the k-th outcome, and exactly k calls were made.      *)
(* When no call raised, it fails to return only by sleeping a negative     *)
(* delay, which the retry parameters fix as well.                          *)
C11_PureFunctionOfOutcomes ==
    max_attempts >= 1 =>
        \A u \in Units :
            /\ Returned(u) =>
                  \A s \in Feeds(hist[u], max_attempts) :
                      LET k == FirstSuccessOrLast(s, max_attempts)
                      IN  /\ future[u].value.status = s[k]
                          /\ future[u].value.attempts = k
                          /\ Len(hist[u]) = k
            /\ (Raised(u) /\ \A n \in 1..Len(hist[u]) : hist[u][n] # RAISE) =>
                  /\ future[u].exc = "ValueError"
                  /\ GeometricDelay(initial_delay, backoff_multiplier, Len(hist[u])) < 0

(* C11 witness: a stubbed runner fed TIMEOUT, SUCCESS with three attempts  *)
(* allowed: SUCCESS after 2 attempts                                       *)
C11_Witness ==
    \E u \in Units :
        /\ devices[u].runner = RUN_STUB
        /\ max_attempts = 3
        /\ hist[u] = <<TIMEOUT, SUCCESS>>
        /\ Returned(u)
        /\ future[u].value.status = SUCCESS
        /\ future[u].value.attempts = 2

(* C12: every outcome in the list carries an error message if and only if *)
(* its status is not SUCCESS: those the runner produced and the retry      *)
(* loop returned, at once or on exhaustion, and those the dispatcher       *)
(* synthesised for a fault.                                                *)
C12_MessageIffNotSuccess ==
    \A i \in 1..Len(results) :
        (results[i].error_message # NoMessage) <=> (results[i].status # SUCCESS)

(* C12 witness: a returned list holding a SUCCESS without a message and a  *)
(* synthesised FAILED with one                                             *)
C12_Witness ==
    /\ mainpc = "done"
    /\ \E i, j \in 1..Len(results) :
         /\ results[i].status = SUCCESS
         /\ results[i].error_message = NoMessage
         /\ Raised(results[j].device)
         /\ results[j].status = FAILED
         /\ results[j].error_message = MsgExecution

(* C13: within a unit attempts are strictly sequential, whatever the other *)
(* units do: attempt k+1 starts only after attempt k returned a            *)
(* non-success outcome and the whole backoff delay for k has passed since, *)
(* no attempt starts before the previous one ended, and one thread at most *)
(* works on the unit, so no two of its attempts are in progress at once.   *)
C13_AttemptsSequential ==
    \A u \in Units :
        /\ Len(spans[u]) = Len(hist[u])
        /\ \A k \in 1..Len(spans[u]) : spans[u][k][1] <= spans[u][k][2]
        /\ \A k \in 1..(Len(spans[u]) - 1) :
              /\ hist[u][k] \in NonSuccess
              /\ GeometricDelay(initial_delay, backoff_multiplier, k) >= 0
              /\ spans[u][k + 1][1] >=
                    spans[u][k][2] + GeometricDelay(initial_delay, backoff_multiplier, k)
        /\ Cardinality({w \in Workers : worker[w] = u}) <= 1
        /\ u \in InProgress => Cardinality({w \in Workers : worker[w] = u}) = 1
        /\ pc[u] = "attempt" => Len(hist[u]) = attempt[u] - 1

(* C13 witness: two units being worked on together, one of them in its     *)
(* second attempt's aftermath: the second attempt began one tick (the      *)
(* initial delay) after the first ended                                    *)
C13_Witness ==
    \E u, v \in Units :
        /\ u # v
        /\ initial_delay = 1
        /\ Len(spans[u]) = 2
        /\ spans[u][2][1] = spans[u][1][2] + 1
        /\ Len(hist[v]) >= 1

(* The unit is inside a runner call that never returns *)
Hung(u) == devices[u].runner = RUN_HANG /\ pc[u] = "attempt"
AllSlotsHung == \A w \in Workers : worker[w] # 0 /\ Hung(worker[w])

(* A unit being worked on is held by exactly one worker, through its       *)
(* backoff sleeps too; a run with a hung unit has not returned.            *)
C14_SlotHeld ==
    /\ \A u \in Units :
         u \in InProgress => Cardinality({w \in Workers : worker[w] = u}) = 1
    /\ \A w \in Workers :
         worker[w] # 0 => worker[w] \in InProgress
    /\ (\E u \in Units : Hung(u)) => mainpc # "done"

(* A worker lets go of its unit only when the unit's processing ends and   *)
(* takes a unit only when it holds none; a hung unit stays where it is;    *)
(* with every slot held by a hung unit no queued unit starts.              *)
C14_SlotSteps ==
    /\ \A w \in Workers :
         /\ worker[w] # 0 =>
               \/ worker'[w] = worker[w]
               \/ worker'[w] = 0 /\ pc'[worker[w]] = "finished"
         /\ (worker[w] = 0 /\ worker'[w] # 0) => pc[worker'[w]] = "queued"
    /\ \A u \in Units :
         Hung(u) => /\ pc'[u] = "attempt"
                    /\ \A w \in Workers : worker[w] = u => worker'[w] = u
    /\ AllSlotsHung =>
         /\ \A u \in Units : pc[u] \in {"unsubmitted", "queued"} => pc'[u] \in {"unsubmitted", "queued"}
         /\ queue' = queue \/ (mainpc = "submit" /\ Len(queue') = Len(queue) + 1)
         /\ mainpc' # "done"

(* C14: a worker holds its slot for a unit from the unit's first attempt   *)
(* to its final outcome, backoff sleeps included, and takes no other unit  *)
(* meanwhile; a unit whose attempt never returns keeps its slot for ever,  *)
(* and once all slots are held by such units no queued unit ever starts    *)
(* and the run never completes.                                            *)
C14_WorkerHoldsSlot == [](C14_SlotHeld) /\ [][C14_SlotSteps]_vars

(* C14 witness: every slot held by a hung unit, a unit waiting in the      *)
(* queue, the dispatcher waiting in as_completed                           *)
C14_Witness ==
    /\ AllSlotsHung
    /\ queue # <<>>
    /\ mainpc = "collect"

(* A unit whose processing ended is in no queue and on no thread *)
C15_EndedStaysOut ==
    \A u \in Units :
        pc[u] \in {"finished", "collected"} =>
            /\ \A i \in 1..Len(queue) : queue[i] # u
            /\ \A w \in Workers : worker[w] # u
            /\ Len(hist[u]) <= max_attempts

(* What a step may do to a unit's place in the dispatcher *)
C15_Steps ==
    /\ params' = params
    /\ \A u \in Units :
         /\ (pc'[u] = "queued" /\ pc[u] # "queued") => pc[u] = "unsubmitted"
         /\ (pc'[u] = "loop" /\ pc[u] # "loop") => pc[u] = "queued"
         /\ pc[u] # "unsubmitted" => pc'[u] # "unsubmitted"
         /\ pc[u] \in {"attempt", "backoff", "nosleep"} => pc'[u] \notin {"queued", "loop"}
         /\ pc[u] \in {"finished", "collected"} =>
               /\ pc'[u] \in {"finished", "collected"}
               /\ hist'[u] = hist[u]
               /\ slept'[u] = slept[u]
               /\ future'[u] = future[u]

(* C15: the dispatcher does no retry or backoff of its own:                *)
(* execute_with_retry is entered once per unit, from the queue the unit    *)
(* was put in once, with max_attempts, initial_delay and                   *)
(* backoff_multiplier as the caller gave them, and a unit whose processing *)
(* ended, in a fault or a non-success outcome too, is never queued or run  *)
(* again.                                                                  *)
C15_DispatcherDoesNotRetry == [](C15_EndedStaysOut) /\ [][C15_Steps]_vars

(* C15 witness: a returned list with a unit that faulted on its only       *)
(* attempt and a unit that exhausted its attempts without success          *)
C15_Witness ==
    /\ mainpc = "done"
    /\ \E u, v \in Units :
         /\ Raised(u) /\ hist[u] = <<RAISE>>
         /\ Returned(v) /\ future[v].value.status \in NonSuccess
         /\ Len(hist[v]) = max_attempts
         /\ Len(results) = 2

(* The time the attempts of unit u took and the time it slept between them *)
AttemptTime(u) == SumSeq([k \in 1..Len(spans[u]) |-> spans[u][k][2] - spans[u][k][1]])
SleepTime(u) == SumSeq(slept[u])

(* C16 (as claimed): every outcome in the list reports as elapsed time the *)
(* time from the unit's first attempt start to its final outcome, which is *)
(* at least the time its attempts took plus the delays it slept; so do the *)
(* outcomes of units whose processing ended in a fault after one or more   *)
(* attempts.                                                               *)
C16_ElapsedCoversAttempts ==
    \A i \in 1..Len(results) :
        LET u == results[i].device
        IN  Len(spans[u]) >= 1 =>
               /\ results[i].elapsed_time = now[u] - spans[u][1][1]
               /\ results[i].elapsed_time >= AttemptTime(u) + SleepTime(u)

(* C16, the part the code keeps: an outcome execute_with_retry returned    *)
(* reports the time from its first attempt start to its return, the sum of *)
(* its attempts' durations and slept delays; a synthesised one reports 0.  *)
C16_ReturnedElapsedCoversAttempts ==
    \A i \in 1..Len(results) :
        LET u == results[i].device
        IN  IF Returned(u)
            THEN /\ results[i].elapsed_time = now[u] - spans[u][1][1]
                 /\ results[i].elapsed_time = AttemptTime(u) + SleepTime(u)
            ELSE results[i].elapsed_time = 0

(* The unit's processing ended without a fault of the runner or of a sleep *)
EndedUnfaulted(u) ==
    /\ pc[u] \in {"finished", "collected"}
    /\ \A n \in 1..Len(hist[u]) : hist[u][n] # RAISE
    /\ \A n \in 1..Len(hist[u]) :
          n < max_attempts => GeometricDelay(initial_delay, backoff_multiplier, n) >= 0

(* C17 (as claimed): for every max_attempts, one for which the loop ends   *)
(* without taking a terminal branch included (max_attempts = 0),           *)
(* execute_with_retry returns a well-formed outcome and does not raise.    *)
C17_ReturnsForEveryMaxAttempts ==
    \A u \in Units :
        EndedUnfaulted(u) =>
            /\ Returned(u)
            /\ future[u].value.status \in TaskStatus
            /\ future[u].value.attempts = Len(hist[u])

(* C17, the part the code keeps: for max_attempts >= 1 it returns the      *)
(* outcome of the last attempt made; for max_attempts < 1 it raises        *)
(* UnboundLocalError in the code after the loop.                           *)
C17_ReturnsForPositiveMaxAttempts ==
    \A u \in Units :
        EndedUnfaulted(u) =>
            IF max_attempts >= 1
            THEN /\ Returned(u)
                 /\ future[u].value.status = hist[u][Len(hist[u])]
                 /\ future[u].value.attempts = Len(hist[u])
            ELSE Raised(u) /\ future[u].exc = "UnboundLocalError" /\ u \in after_loop

(* The place of unit u in the order in which the futures finished *)
FinishPlace(u) == CHOOSE p \in 1..Len(completed) : completed[p] = u

(* C18 (as claimed): the list is in completion order: of two units, the    *)
(* one whose processing finished first has its outcome first in the list.  *)
C18_CompletionOrder ==
    \A i, j \in 1..Len(results) :
        i < j => FinishPlace(results[i].device) < FinishPlace(results[j].device)

(* C18 (amended): the outcomes of the units that had finished when the     *)
(* dispatcher began collecting come first, in any order among themselves;  *)
(* the outcomes of the others follow in completion order.                  *)
C18_CompletionOrderAfterEarly ==
    \A i, j \in 1..Len(results) :
        i < j =>
            \/ FinishPlace(results[i].device) < FinishPlace(results[j].device)
            \/ /\ FinishPlace(results[i].device) <= early_count
               /\ FinishPlace(results[j].device) <= early_count

(* C18 witness: two units, neither finished when collecting began, the     *)
(* second of the input finishing first and coming first in the list        *)
C18_Witness ==
    /\ mainpc = "done"
    /\ early_count = 0
    /\ completed = <<2, 1>>
    /\ Len(results) = 2
    /\ results[1].device = 2
    /\ results[2].device = 1

(* C19: the runner is called at most max_attempts times for a unit; an    *)
(* outcome execute_with_retry returns with max_attempts >= 1 reports as    *)
(* attempts the number of calls made for the unit; and with max_attempts   *)
(* >= 1 the code after the retry loop is never reached.                    *)
C19_AttemptsAreRunnerCalls ==
    \A u \in Units :
        /\ Len(hist[u]) <= (IF max_attempts >= 0 THEN max_attempts ELSE 0)
        /\ (max_attempts >= 1 /\ Returned(u)) =>
              future[u].value.attempts = Len(hist[u])
        /\ max_attempts >= 1 => u \notin after_loop

(* C19 witness: both of two allowed attempts made without success, the     *)
(* outcome returned from inside the loop with attempts = 2                 *)
C19_Witness ==
    \E u \in Units :
        /\ max_attempts = 2
        /\ hist[u] = <<PARTIAL, FAILED>>
        /\ Returned(u)
        /\ future[u].value.attempts = 2
        /\ after_loop = {}

(* The retry state of unit u: the locals of its execute_with_retry call    *)
(* and what the call did so far                                            *)
RetryState(u) ==
    <<attempt[u], result[u], start_time[u], now[u], hist[u], slept[u], spans[u]>>

(* Every unit whose future was handled has one outcome in the list, every  *)
(* other unit none                                                         *)
C20_OneAppendPerUnit ==
    \A u \in Units :
        Cardinality(ResultsOf(u)) = (IF pc[u] = "collected" THEN 1 ELSE 0)

(* A step that changes the list is a step of the collecting loop that      *)
(* appends the outcome of the one future it handles; a step that changes   *)
(* a unit's retry state is a step of the thread working on that unit,      *)
(* changes no other unit's retry state and leaves the list alone.          *)
C20_Steps ==
    /\ Len(results') >= Len(results)
    /\ results' # results =>
          /\ mainpc = "collect"
          /\ Len(results') = Len(results) + 1
          /\ SubSeq(results', 1, Len(results)) = results
          /\ \E u \in Units :
                /\ pc[u] = "finished" /\ pc'[u] = "collected"
                /\ results'[Len(results')].device = u
                /\ \A v \in Units \ {u} : pc'[v] = pc[v]
          /\ \A u \in Units : RetryState(u)' = RetryState(u)
          /\ worker' = worker
    /\ \A u \in Units :
          RetryState(u)' # RetryState(u) =>
              /\ \E w \in Workers : worker[w] = u
              /\ \A v \in Units \ {u} : RetryState(v)' = RetryState(v) /\ pc'[v] = pc[v]
              /\ results' = results

(* C20: the result list is written only by the collecting thread: each     *)
(* completed unit causes exactly one append, made in a step of its own,    *)
(* the list never gets shorter, and a worker thread changes the retry      *)
(* state of the unit it works on only, under every interleaving.           *)
C20_SingleCollector == [](C20_OneAppendPerUnit) /\ [][C20_Steps]_vars

(* C20 witness: two workers, two units of two attempts each, both outcomes *)
(* in the returned list                                                    *)
C20_Witness ==
    /\ mainpc = "done"
    /\ max_workers = 2
    /\ Len(results) = 2
    /\ \A u \in Units : Len(hist[u]) = 2 /\ Cardinality(ResultsOf(u)) = 1

====
